---- MODULE Spec2Model ----
(***************************************************************************)
(* MarketLink Pro (src/main.py): the order and subscription-payment        *)
(* conversations, the approval callback, the subscription clock.           *)
(*                                                                         *)
(* src/main.py holds two generations of the bot in one file.  Python binds *)
(* a name to its last definition, and main() (line 1610) registers the     *)
(* handlers by name, so the running program is the second generation       *)
(* (lines 853-1668): that is what is modelled here.                        *)
(***************************************************************************)
EXTENDS Integers, Sequences, FiniteSets, TLC

(***************************************************************************)
(* Bounds of the model.                                                    *)
(***************************************************************************)
MaxOrders == 1
MaxPayments == 1
MaxElapsed == 4
MaxExtensions == 2

(***************************************************************************)
(* Program constants.                                                      *)
(***************************************************************************)
ADMIN_ID == 1
TRIAL_DAYS == 3
SUBSCRIPTION_EXTENSION_DAYS == 30

\* The identities of the model: the administrator, a shop owner, a customer.
Users == {ADMIN_ID, 2, 3}
\* Who sends which command: shops are set up by the owner,
\* orders are placed by the customer, subscription payments are sent by the owner
\* (before or after the shop has been set up).
Owners == {2}
Customers == {3}
Payers == {2}

(***************************************************************************)
(* Calendar: datetime.strftime("%Y-%m-%d") and datetime.strptime.  A day   *)
(* is its ordinal (days since EpochDate); a stored date text is the tuple  *)
(* <<year, month, day>>, and the empty tuple is NULL / the empty text.     *)
(***************************************************************************)
EpochDate == <<2023, 1, 1>>
StartDate == <<2023, 12, 30>>
DaySteps == {2}

IsLeap(y) == (y % 4 = 0 /\ y % 100 # 0) \/ y % 400 = 0

DaysInMonth(y, m) ==
    IF m = 2 THEN (IF IsLeap(y) THEN 29 ELSE 28)
    ELSE IF m \in {4, 6, 9, 11} THEN 30 ELSE 31

DaysInYear(y) == IF IsLeap(y) THEN 366 ELSE 365

RECURSIVE DaysBeforeYear(_)
DaysBeforeYear(y) ==
    IF y <= EpochDate[1] THEN 0 ELSE DaysBeforeYear(y - 1) + DaysInYear(y - 1)

RECURSIVE DaysBeforeMonth(_, _)
DaysBeforeMonth(y, m) ==
    IF m <= 1 THEN 0 ELSE DaysBeforeMonth(y, m - 1) + DaysInMonth(y, m - 1)

ToOrdinal(d) == DaysBeforeYear(d[1]) + DaysBeforeMonth(d[1], d[2]) + d[3] - 1

RECURSIVE FromOrdinalIn(_, _, _)
FromOrdinalIn(y, m, n) ==
    IF n >= DaysInYear(y) /\ m = 1 THEN FromOrdinalIn(y + 1, 1, n - DaysInYear(y))
    ELSE IF n >= DaysInMonth(y, m) THEN FromOrdinalIn(y, m + 1, n - DaysInMonth(y, m))
    ELSE <<y, m, n + 1>>

\* (day).strftime("%Y-%m-%d")
strftime(n) == FromOrdinalIn(EpochDate[1], 1, n)

\* datetime.strptime(s, "%Y-%m-%d") succeeds
CanParse(s) ==
    /\ Len(s) = 3
    /\ s[1] >= EpochDate[1]
    /\ s[2] \in 1..12
    /\ s[3] \in 1..DaysInMonth(s[1], s[2])

\* datetime.strptime(s, "%Y-%m-%d"), where it succeeds
strptime(s) == ToOrdinal(s)

StartDay == ToOrdinal(StartDate)
Horizon == StartDay + MaxElapsed + TRIAL_DAYS + MaxExtensions * SUBSCRIPTION_EXTENSION_DAYS

\* Date texts that strptime refuses and that an existing store may hold.
NullDate == <<>>
BadDate == <<2023, 2, 30>>

(***************************************************************************)
(* int() and str() of the identifiers carried in callback data.            *)
(***************************************************************************)
Digits == <<"1", "2", "3", "4", "5", "6", "7", "8", "9">>

Str(n) == IF n = 0 THEN "0" ELSE Digits[n]

IsInt(s) == s = "0" \/ \E i \in 1..Len(Digits) : Digits[i] = s

ParseInt(s) == IF s = "0" THEN 0 ELSE CHOOSE i \in 1..Len(Digits) : Digits[i] = s

(***************************************************************************)
(* State.                                                                  *)
(*   now        the wall clock: the day's ordinal and the second in it     *)
(*   shops      table shops, keyed by owner_id                             *)
(*   orders     table orders; the row id is the index                      *)
(*   payments   table payments; the row id is the index                    *)
(*   files      the paths that exist under PHOTOS_DIR                      *)
(*   user_data  context.user_data of every user                            *)
(*   order_conv the state of order_conv for every user                     *)
(*   pay_conv   the state of pay_conv for every user                       *)
(*   ev         the last step: the update handled and what its handler     *)
(*              answered and sent, or op "clock" when time passed          *)
(***************************************************************************)
VARIABLES now, shops, orders, payments, files, user_data, order_conv, pay_conv, ev

vars == <<now, shops, orders, payments, files, user_data, order_conv, pay_conv, ev>>

store == <<shops, orders, payments>>
sessions == <<user_data, order_conv, pay_conv>>

END == "END"

Texts == {"a"}
ShopNames == {"S"}
\* A shop reference typed in a deep link or after /order: a user, or nobody's id.
ShopRefs == Users \cup {4}
\* context.args of /start and /order: none, a number, or text that int() refuses.
ArgLists == {<<>>, <<"x">>} \cup {<<Str(s)>> : s \in ShopRefs}
\* The /order arguments of the dispatcher's specification: none, or a shop that can be active.
OrderArgs == {<<>>} \cup {<<Str(s)>> : s \in {ADMIN_ID} \cup Owners}

SecondsPerDay == 24 * 60 * 60

\* int(datetime.now().timestamp())
timestamp(t) == t.day * SecondsPerDay + t.sec

\* datetime.now().strftime("%Y-%m-%d %H:%M:%S")
created_at(t) == <<strftime(t.day), t.sec>>

\* op       the handler
\* by       the user the update came from
\* data     the command's arguments or the pressed button's data; for a submission,
\*          the data of the approve button sent with the decision request
\* reply    the answer to the sender
\* target   the chat a decision request was sent to (0: none)
\* notified whether the send to the other party (approver or submitter) succeeded
\* old_exp  for an accepted subscription approval: the stored expiry before it
\* new_exp  for an accepted subscription approval: the expiry reported to the submitter
NoEvent == [op |-> "init", by |-> 0, data |-> <<>>, reply |-> "", target |-> 0, notified |-> FALSE,
            old_exp |-> <<>>, new_exp |-> <<>>]

Event(op, by, data, reply, target, notified) ==
    [op |-> op, by |-> by, data |-> data, reply |-> reply, target |-> target, notified |-> notified,
     old_exp |-> <<>>, new_exp |-> <<>>]

(***************************************************************************)
(* Store helpers.                                                          *)
(***************************************************************************)
\* db_get_shop: the row, where there is one
HasShop(sh, owner_id) == owner_id \in DOMAIN sh

\* db_set_shop: INSERT OR REPLACE
db_set_shop(sh, t, owner_id, shop_name, expire_date) ==
    [o \in DOMAIN sh \cup {owner_id} |->
        IF o = owner_id
        THEN [shop_name |-> shop_name, expire_date |-> expire_date, created_at |-> strftime(t.day)]
        ELSE sh[o]]

\* db_extend_shop with cur_exp taken from today's date whatever the row holds
db_extend_new_exp_from_today(sh, t, owner_id, days) == strftime(t.day + days)

\* db_extend_shop: the new expiry text it computes and returns
db_extend_new_exp(sh, t, owner_id, days) ==
    LET cur_exp == IF HasShop(sh, owner_id) /\ sh[owner_id].expire_date # NullDate
                       /\ CanParse(sh[owner_id].expire_date)
                   THEN strptime(sh[owner_id].expire_date)
                   ELSE t.day
    IN  strftime(cur_exp + days)

\* db_extend_shop with the UPDATE left out
db_extend_shop_no_update(sh, t, owner_id, days) == sh

\* db_extend_shop: the shops table after its UPDATE ... WHERE owner_id=?
db_extend_shop(sh, t, owner_id, days) ==
    [o \in DOMAIN sh |->
        IF o = owner_id
        THEN [sh[o] EXCEPT !.expire_date = db_extend_new_exp(sh, t, owner_id, days)]
        ELSE sh[o]]

\* db_create_order: the orders table after the INSERT (status "Pending")
db_create_order(os, t, shop_id, customer_id, cust_name, cust_phone, cust_address, items, total, photo_path) ==
    Append(os, [shop_id |-> shop_id, customer_id |-> customer_id, cust_name |-> cust_name,
                cust_phone |-> cust_phone, cust_address |-> cust_address, items |-> items,
                total |-> total, photo_path |-> photo_path, status |-> "Pending",
                created_at |-> created_at(t)])

\* db_get_order finds a row
HasOrder(os, oid) == oid \in 1..Len(os)

\* db_update_order_status: UPDATE orders SET status=? WHERE id=?
db_update_order_status(os, oid, status) ==
    IF oid \in 1..Len(os) THEN [os EXCEPT ![oid].status = status] ELSE os

\* db_insert_payment storing the new row's own id as ref_id
db_insert_payment_own_ref(ps, t, uid, kind, ref_id, photo_path) ==
    Append(ps, [uid |-> uid, kind |-> kind, ref_id |-> Len(ps) + 1, photo_path |-> photo_path,
                status |-> "pending", created_at |-> created_at(t)])

\* db_insert_payment: the payments table after the INSERT (status "pending");
\* ref_id 0 stands for NULL
db_insert_payment(ps, t, uid, kind, ref_id, photo_path) ==
    Append(ps, [uid |-> uid, kind |-> kind, ref_id |-> ref_id, photo_path |-> photo_path,
                status |-> "pending", created_at |-> created_at(t)])

\* a payments row with this id
HasPayment(ps, pid) == pid \in 1..Len(ps)

\* db_update_payment_status: UPDATE payments SET status=? WHERE id=?
db_update_payment_status(ps, pid, status) ==
    IF pid \in 1..Len(ps) THEN [ps EXCEPT ![pid].status = status] ELSE ps

\* is_shop_active without the test "owner_id == ADMIN_ID"
is_shop_active_record_only(sh, t, owner_id) ==
    IF ~HasShop(sh, owner_id) THEN FALSE
    ELSE IF sh[owner_id].expire_date = NullDate THEN FALSE
    ELSE IF ~CanParse(sh[owner_id].expire_date) THEN FALSE
    ELSE t.day <= strptime(sh[owner_id].expire_date)

\* is_shop_active comparing with "<"
is_shop_active_before_expiry(sh, t, owner_id) ==
    IF owner_id = ADMIN_ID THEN TRUE
    ELSE IF ~HasShop(sh, owner_id) THEN FALSE
    ELSE IF sh[owner_id].expire_date = NullDate THEN FALSE
    ELSE IF ~CanParse(sh[owner_id].expire_date) THEN FALSE
    ELSE t.day < strptime(sh[owner_id].expire_date)

\* is_shop_active
is_shop_active(sh, t, owner_id) ==
    IF owner_id = ADMIN_ID THEN TRUE
    ELSE IF ~HasShop(sh, owner_id) THEN FALSE
    ELSE IF sh[owner_id].expire_date = NullDate THEN FALSE
    ELSE IF ~CanParse(sh[owner_id].expire_date) THEN FALSE
    ELSE t.day <= strptime(sh[owner_id].expire_date)

(***************************************************************************)
(* context.user_data: a dictionary, here a function on the keys it holds.  *)
(***************************************************************************)
Has(ud, k) == k \in DOMAIN ud

Put(ud, k, v) == [x \in DOMAIN ud \cup {k} |-> IF x = k THEN v ELSE ud[x]]

Pop(ud, ks) == [x \in DOMAIN ud \ ks |-> ud[x]]

Empty == [x \in {} |-> 0]

(***************************************************************************)
(* Init: the process has started on an existing store (init_db creates the *)
(* tables only IF NOT EXISTS).  The store is empty, or holds one shop row  *)
(* whose expire_date is NULL or is no date: the two values db_extend_shop  *)
(* and is_shop_active guard against.                                       *)
(***************************************************************************)
LegacyRow(e) == [shop_name |-> "S", expire_date |-> e, created_at |-> strftime(StartDay)]

InitialShops ==
    {Empty} \cup {[o \in {u} |-> LegacyRow(e)] : u \in Owners, e \in {NullDate, BadDate}}

Init ==
    /\ now = [day |-> StartDay, sec |-> 0]
    /\ shops \in InitialShops
    /\ orders = <<>>
    /\ payments = <<>>
    /\ files = {}
    /\ user_data = [u \in Users |-> Empty]
    /\ order_conv = [u \in Users |-> END]
    /\ pay_conv = [u \in Users |-> END]
    /\ ev = NoEvent

(***************************************************************************)
(* Time passes between two updates; ev records that no update was handled  *)
(* in the step.                                                            *)
(***************************************************************************)
TickDay(d) ==
    /\ now.day + d <= StartDay + MaxElapsed
    /\ now' = [day |-> now.day + d, sec |-> 0]
    /\ ev' = Event("clock", 0, <<>>, "", 0, FALSE)
    /\ UNCHANGED <<store, files, sessions>>

(***************************************************************************)
(* /start [shop_id]   (CommandHandler registered before the conversations, *)
(* so it also runs while a conversation is open)                           *)
(***************************************************************************)
start(uid, args) ==
    /\ IF args # <<>> /\ IsInt(args[1]) /\ is_shop_active(shops, now, ParseInt(args[1]))
       THEN /\ user_data' = [user_data EXCEPT ![uid] = Put(@, "current_shop_id", ParseInt(args[1]))]
            /\ ev' = Event("start", uid, args,
                           IF HasShop(shops, ParseInt(args[1])) THEN "welcome" ELSE "shop not found", 0, FALSE)
       ELSE /\ user_data' = user_data
            /\ ev' = Event("start", uid, args,
                           IF args = <<>> THEN "panel"
                           ELSE IF ~IsInt(args[1]) THEN "Invalid shop link." ELSE "expired", 0, FALSE)
    /\ UNCHANGED <<now, store, files, order_conv, pay_conv>>

(***************************************************************************)
(* /setup_shop <name>                                                      *)
(***************************************************************************)
setup_shop(uid, name) ==
    /\ IF name = ""
       THEN /\ shops' = shops
            /\ ev' = Event("setup_shop", uid, <<>>, "Usage", 0, FALSE)
       ELSE /\ shops' = db_set_shop(shops, now, uid, name, strftime(now.day + TRIAL_DAYS))
            /\ ev' = Event("setup_shop", uid, <<>>, "Shop created", 0, FALSE)
    /\ UNCHANGED <<now, orders, payments, files, sessions>>

(***************************************************************************)
(* order_conv: /order [shop_id], photo, name, phone, address               *)
(***************************************************************************)
\* order_start storing shop 0 for an argument that int() refuses
order_start_data_lenient(ud, args) ==
    IF args # <<>> THEN Put(ud, "current_shop_id", IF IsInt(args[1]) THEN ParseInt(args[1]) ELSE 0) ELSE ud

\* user_data after order_start has read context.args
order_start_data(ud, args) ==
    IF args # <<>> /\ IsInt(args[1]) THEN Put(ud, "current_shop_id", ParseInt(args[1])) ELSE ud

order_start(uid, args) ==
    /\ order_conv[uid] = END
    /\ LET ud == order_start_data(user_data[uid], args)
       IN  /\ user_data' = [user_data EXCEPT ![uid] = ud]
           /\ IF ~Has(ud, "current_shop_id")
              THEN /\ order_conv' = order_conv
                   /\ ev' = Event("order_start", uid, args, "open a shop link first", 0, FALSE)
              ELSE IF ~is_shop_active(shops, now, ud["current_shop_id"])
              THEN /\ order_conv' = order_conv
                   /\ ev' = Event("order_start", uid, args, "expired", 0, FALSE)
              ELSE /\ order_conv' = [order_conv EXCEPT ![uid] = "ORDER_PHOTO"]
                   /\ ev' = Event("order_start", uid, args, "send photo", 0, FALSE)
    /\ UNCHANGED <<now, store, files, pay_conv>>

\* os.path.join(PHOTOS_DIR, f"{prefix}_{uid}_{int(datetime.now().timestamp())}.jpg")
filename(prefix, uid, t) == <<prefix, uid, timestamp(t)>>

order_photo(uid, saved) ==
    /\ order_conv[uid] = "ORDER_PHOTO"
    /\ IF saved
       THEN /\ files' = files \cup {filename("order", uid, now)}
            /\ user_data' = [user_data EXCEPT ![uid] = Put(@, "order_photo", filename("order", uid, now))]
            /\ order_conv' = [order_conv EXCEPT ![uid] = "ORDER_NAME"]
            /\ ev' = Event("order_photo", uid, <<>>, "photo received", 0, FALSE)
       ELSE /\ UNCHANGED <<files, user_data, order_conv>>
            /\ ev' = Event("order_photo", uid, <<>>, "failed, send again", 0, FALSE)
    /\ UNCHANGED <<now, store, pay_conv>>

order_name(uid, text) ==
    /\ order_conv[uid] = "ORDER_NAME"
    /\ user_data' = [user_data EXCEPT ![uid] = Put(@, "cust_name", text)]
    /\ order_conv' = [order_conv EXCEPT ![uid] = "ORDER_PHONE"]
    /\ ev' = Event("order_name", uid, <<>>, "phone?", 0, FALSE)
    /\ UNCHANGED <<now, store, files, pay_conv>>

\* order_phone returning ConversationHandler.END instead of ORDER_ADDRESS
order_phone_ends(uid, text) ==
    /\ order_conv[uid] = "ORDER_PHONE"
    /\ user_data' = [user_data EXCEPT ![uid] = Put(@, "cust_phone", text)]
    /\ order_conv' = [order_conv EXCEPT ![uid] = END]
    /\ ev' = Event("order_phone", uid, <<>>, "address?", 0, FALSE)
    /\ UNCHANGED <<now, store, files, pay_conv>>

order_phone(uid, text) ==
    /\ order_conv[uid] = "ORDER_PHONE"
    /\ user_data' = [user_data EXCEPT ![uid] = Put(@, "cust_phone", text)]
    /\ order_conv' = [order_conv EXCEPT ![uid] = "ORDER_ADDRESS"]
    /\ ev' = Event("order_phone", uid, <<>>, "address?", 0, FALSE)
    /\ UNCHANGED <<now, store, files, pay_conv>>

\* target = ADMIN_ID whatever db_get_shop finds
order_target_admin(sh, sid) == ADMIN_ID

\* target = owner_id or ADMIN_ID (lines 1288-1290)
order_target(sh, sid) == IF HasShop(sh, sid) /\ sid # 0 THEN sid ELSE ADMIN_ID

\* f"order_conf_{oid}" / f"order_rej_{oid}", split at "_"
order_button(action, oid) == <<"order", action, Str(oid)>>

order_address(uid, text, sent) ==
    /\ order_conv[uid] = "ORDER_ADDRESS"
    /\ Len(orders) < MaxOrders
    /\ LET ud == Put(user_data[uid], "cust_address", text)
           sid == ud["current_shop_id"]
           oid == Len(orders) + 1
       IN  /\ orders' = db_create_order(orders, now, sid, uid, ud["cust_name"], ud["cust_phone"],
                                        ud["cust_address"], "", 0, ud["order_photo"])
           /\ ev' = Event("order_address", uid, order_button("conf", oid), "order received",
                          order_target(shops, sid), sent)
           /\ user_data' = [user_data EXCEPT ![uid] =
                                Pop(ud, {"order_photo", "cust_name", "cust_phone", "cust_address"})]
    /\ order_conv' = [order_conv EXCEPT ![uid] = END]
    /\ UNCHANGED <<now, shops, payments, files, pay_conv>>

(***************************************************************************)
(* /cancel: the fallback of order_conv, else of pay_conv, else the plain   *)
(* command handler; each one is cancel().                                  *)
(***************************************************************************)
\* cancel without context.user_data.clear()
cancel_keeps_data(uid) ==
    /\ user_data' = user_data
    /\ IF order_conv[uid] # END
       THEN order_conv' = [order_conv EXCEPT ![uid] = END] /\ pay_conv' = pay_conv
       ELSE order_conv' = order_conv /\ pay_conv' = [pay_conv EXCEPT ![uid] = END]
    /\ ev' = Event("cancel", uid, <<>>, "Cancelled.", 0, FALSE)
    /\ UNCHANGED <<now, store, files>>

cancel(uid) ==
    /\ user_data' = [user_data EXCEPT ![uid] = Empty]
    /\ IF order_conv[uid] # END
       THEN order_conv' = [order_conv EXCEPT ![uid] = END] /\ pay_conv' = pay_conv
       ELSE order_conv' = order_conv /\ pay_conv' = [pay_conv EXCEPT ![uid] = END]
    /\ ev' = Event("cancel", uid, <<>>, "Cancelled.", 0, FALSE)
    /\ UNCHANGED <<now, store, files>>

(***************************************************************************)
(* pay_conv: /pay_subscribe, photo                                         *)
(***************************************************************************)
pay_subscribe_start(uid) ==
    /\ pay_conv[uid] = END
    /\ pay_conv' = [pay_conv EXCEPT ![uid] = "PAY_SUB_WAIT"]
    /\ ev' = Event("pay_subscribe_start", uid, <<>>, "send screenshot", 0, FALSE)
    /\ UNCHANGED <<now, store, files, user_data, order_conv>>

\* f"sub_ok_{pid}_{uid}" / f"sub_no_{pid}_{uid}", split at "_"
sub_button(action, pid, uid) == <<"sub", action, Str(pid), Str(uid)>>

\* A photo goes to order_conv while that waits in ORDER_PHOTO (it is registered first).
pay_sub_receive(uid, saved, sent) ==
    /\ pay_conv[uid] = "PAY_SUB_WAIT"
    /\ order_conv[uid] # "ORDER_PHOTO"
    /\ Len(payments) < MaxPayments
    /\ IF saved
       THEN /\ files' = files \cup {filename("sub", uid, now)}
            /\ payments' = db_insert_payment(payments, now, uid, "subscription", 0, filename("sub", uid, now))
            /\ ev' = Event("pay_sub_receive", uid, sub_button("ok", Len(payments) + 1, uid),
                           "Payment submitted", ADMIN_ID, sent)
       ELSE /\ UNCHANGED <<files, payments>>
            /\ ev' = Event("pay_sub_receive", uid, <<>>, "upload failed", 0, FALSE)
    /\ pay_conv' = [pay_conv EXCEPT ![uid] = END]
    /\ UNCHANGED <<now, shops, orders, user_data, order_conv>>

(***************************************************************************)
(* callback_handler: a press of an inline button.  q.data is modelled by   *)
(* its parts, data.split("_").                                             *)
(***************************************************************************)
\* data.startswith(f"{a}_{b}_")
StartsWith(data, a, b) == Len(data) >= 3 /\ data[1] = a /\ data[2] = b

IsSubData(data) == StartsWith(data, "sub", "ok") \/ StartsWith(data, "sub", "no")
IsOrderData(data) == StartsWith(data, "order", "conf") \/ StartsWith(data, "order", "rej")

\* if user_id != ADMIN_ID: "Not authorized"
sub_authorized(user_id) == user_id = ADMIN_ID

\* the order branch with its authorization test left out
order_authorized_anyone(sh, os, user_id, oid) == TRUE

\* the order branch with the test "user_id != owner_id" alone
order_authorized_owner_only(sh, os, user_id, oid) ==
    HasShop(sh, os[oid].shop_id) /\ user_id = os[oid].shop_id

\* if user_id != ADMIN_ID and user_id != owner_id: "Not authorized"
order_authorized(sh, os, user_id, oid) ==
    \/ user_id = ADMIN_ID
    \/ HasShop(sh, os[oid].shop_id) /\ user_id = os[oid].shop_id

\* The subscription branch fails in int() or returns before it touches the store.
sub_refusal(user_id, data) ==
    IF Len(data) < 4 THEN "Invalid callback."
    ELSE IF ~IsInt(data[3]) \/ ~IsInt(data[4]) THEN "Processing failed. See logs."
    ELSE IF ~sub_authorized(user_id) THEN "Not authorized"
    ELSE ""

\* the order branch testing the sender before it looks the order up
order_refusal_sender_first(sh, os, user_id, data) ==
    IF ~IsInt(data[3]) THEN "Processing failed. See logs."
    ELSE IF user_id # ADMIN_ID
            /\ ~(HasOrder(os, ParseInt(data[3])) /\ order_authorized(sh, os, user_id, ParseInt(data[3])))
    THEN "Not authorized"
    ELSE IF ~HasOrder(os, ParseInt(data[3])) THEN "Order not found."
    ELSE ""

\* The order branch fails in int() or returns before it touches the store.
order_refusal(sh, os, user_id, data) ==
    IF ~IsInt(data[3]) THEN "Processing failed. See logs."
    ELSE IF ~HasOrder(os, ParseInt(data[3])) THEN "Order not found."
    ELSE IF ~order_authorized(sh, os, user_id, ParseInt(data[3])) THEN "Not authorized"
    ELSE ""

\* the subscription branch extending the shop under either action
sub_shops_any_action(sh, t, data) ==
    db_extend_shop(sh, t, ParseInt(data[4]), SUBSCRIPTION_EXTENSION_DAYS)

\* What the branch does to the shops table once the press is accepted.
sub_shops(sh, t, data) ==
    IF data[2] = "ok" THEN db_extend_shop(sh, t, ParseInt(data[4]), SUBSCRIPTION_EXTENSION_DAYS) ELSE sh

\* What the branch does to the payments table once the press is accepted.
sub_payments(ps, data) ==
    db_update_payment_status(ps, ParseInt(data[3]), IF data[2] = "ok" THEN "approved" ELSE "rejected")

\* What the branch does to the orders table once the press is accepted.
order_orders(os, data) ==
    db_update_order_status(os, ParseInt(data[3]), IF data[2] = "conf" THEN "Confirmed" ELSE "Rejected")

\* The expiry text stored for uid (NULL where there is no row).
stored_exp(sh, uid) == IF HasShop(sh, uid) THEN sh[uid].expire_date ELSE NullDate

\* A subscription button names the payment's own submitter (pay_sub_receive and
\* cmd_pending_payments build it so); a payment id that is in no row may come with any user.
WellFormedPress(ps, data) ==
    (IsSubData(data) /\ Len(data) >= 4 /\ IsInt(data[3]) /\ IsInt(data[4])
        /\ ParseInt(data[3]) \in 1..Len(ps))
    => ps[ParseInt(data[3])].uid = ParseInt(data[4])

\* The presses of the model: the buttons of every payment and order id up to one past
\* the last row, and data that is cut short, carries no number, or is no button's.
CallbackData ==
    {sub_button(a, p, u) : a \in {"ok", "no"}, p \in 1..(MaxPayments + 1), u \in Payers}
    \cup {order_button(a, o) : a \in {"conf", "rej"}, o \in 1..(MaxOrders + 1)}
    \cup {<<"sub", "ok", "1">>, <<"order", "conf", "x">>, <<"other">>}

\* The buttons the bot has sent: pay_sub_receive sends the pair of a payment,
\* order_address the pair of an order (lines 1291 and 1325).
IssuedButtons(ps, os) ==
    {sub_button(a, p, ps[p].uid) : a \in {"ok", "no"}, p \in 1..Len(ps)}
    \cup {order_button(a, o) : a \in {"conf", "rej"}, o \in 1..Len(os)}

\* The new expiry text an accepted approval reports to the submitter.
sub_new_exp(sh, t, data) ==
    db_extend_new_exp(sh, t, ParseInt(data[4]), SUBSCRIPTION_EXTENSION_DAYS)

\* a handler in which a failed send undoes the write made before it
after_notify_rollback(before, after, sent) == IF sent THEN after ELSE before

\* The table after the notification of the submitter has been attempted: the
\* write is made before bot.send_message is called, and the exception of a
\* failed send is caught and logged (lines 1361-1364, 1369-1372, 1397-1400,
\* 1404-1407).
after_notify(before, after, sent) == after

sub_press(user_id, data) ==
    /\ WellFormedPress(payments, data)
    /\ IsSubData(data)
    /\ UNCHANGED <<now, orders, files, sessions>>
    /\ IF sub_refusal(user_id, data) # ""
       THEN /\ UNCHANGED <<shops, payments>>
            /\ ev' = Event("callback", user_id, data, sub_refusal(user_id, data), 0, FALSE)
       ELSE IF data[2] = "ok"
       THEN /\ ToOrdinal(sub_new_exp(shops, now, data)) <= Horizon
            /\ \E sent \in BOOLEAN :
                   /\ shops' = after_notify(shops, sub_shops(shops, now, data), sent)
                   /\ payments' = after_notify(payments, sub_payments(payments, data), sent)
                   /\ ev' = [Event("callback", user_id, data, "Approved", 0, sent)
                               EXCEPT !.old_exp = stored_exp(shops, ParseInt(data[4])),
                                      !.new_exp = sub_new_exp(shops, now, data)]
       ELSE /\ \E sent \in BOOLEAN :
                   /\ shops' = after_notify(shops, sub_shops(shops, now, data), sent)
                   /\ payments' = after_notify(payments, sub_payments(payments, data), sent)
                   /\ ev' = Event("callback", user_id, data, "Rejected", 0, sent)

order_press(user_id, data) ==
    /\ ~IsSubData(data)
    /\ IsOrderData(data)
    /\ UNCHANGED <<now, shops, payments, files, sessions>>
    /\ IF order_refusal(shops, orders, user_id, data) # ""
       THEN /\ orders' = orders
            /\ ev' = Event("callback", user_id, data, order_refusal(shops, orders, user_id, data), 0, FALSE)
       ELSE /\ \E sent \in BOOLEAN :
                   /\ orders' = after_notify(orders, order_orders(orders, data), sent)
                   /\ ev' = Event("callback", user_id, data,
                                  IF data[2] = "conf" THEN "Confirmed" ELSE "Rejected", 0, sent)

other_press(user_id, data) ==
    /\ ~IsSubData(data)
    /\ ~IsOrderData(data)
    /\ UNCHANGED <<now, store, files, sessions>>
    /\ ev' = Event("callback", user_id, data, "", 0, FALSE)

callback_handler(user_id, data) ==
    \/ sub_press(user_id, data)
    \/ order_press(user_id, data)
    \/ other_press(user_id, data)

(***************************************************************************)
(* Specifications.  In each, orders and payments come into being through   *)
(* the conversations and the presses are those of the buttons the bot has  *)
(* sent.  /start and /cancel write nothing to the store and are left to    *)
(* the specification of the conversations.                                 *)
(*   Spec       the approval dispatcher with both kinds of submission      *)
(*   SpecSub    the subscription life cycle alone, with the clock          *)
(*   SpecOrder  the order life cycle alone                                 *)
(***************************************************************************)
Next ==
    \/ \E u \in Owners, n \in ShopNames \cup {""} : setup_shop(u, n)
    \/ \E u \in Customers, a \in OrderArgs : order_start(u, a)
    \/ \E u \in Customers, ok \in BOOLEAN : order_photo(u, ok)
    \/ \E u \in Customers, x \in Texts : order_name(u, x)
    \/ \E u \in Customers, x \in Texts : order_phone(u, x)
    \/ \E u \in Customers, x \in Texts, s \in BOOLEAN : order_address(u, x, s)
    \/ \E u \in Payers : pay_subscribe_start(u)
    \/ \E u \in Payers, ok \in BOOLEAN, s \in BOOLEAN : pay_sub_receive(u, ok, s)
    \/ \E u \in Users, d \in IssuedButtons(payments, orders) : sub_press(u, d)
    \/ \E u \in Users, d \in IssuedButtons(payments, orders) : order_press(u, d)

Spec == Init /\ [][Next]_vars

NextSub ==
    \/ \E d \in DaySteps : TickDay(d)
    \/ \E u \in Owners, n \in ShopNames \cup {""} : setup_shop(u, n)
    \/ \E u \in Payers : pay_subscribe_start(u)
    \/ \E u \in Payers, ok \in BOOLEAN, s \in BOOLEAN : pay_sub_receive(u, ok, s)
    \/ \E u \in Users, d \in IssuedButtons(payments, orders) : sub_press(u, d)

SpecSub == Init /\ [][NextSub]_vars

NextOrder ==
    \/ \E u \in Owners, n \in ShopNames \cup {""} : setup_shop(u, n)
    \/ \E u \in Customers, a \in OrderArgs : order_start(u, a)
    \/ \E u \in Customers, ok \in BOOLEAN : order_photo(u, ok)
    \/ \E u \in Customers, x \in Texts : order_name(u, x)
    \/ \E u \in Customers, x \in Texts : order_phone(u, x)
    \/ \E u \in Customers, x \in Texts, s \in BOOLEAN : order_address(u, x, s)
    \/ \E u \in Users, d \in IssuedButtons(payments, orders) : order_press(u, d)

SpecOrder == Init /\ [][NextOrder]_vars

(***************************************************************************)
(* Presses whose data the bot did not send: callback data is chosen by the *)
(* client, so a press may name a row that is not in the table.             *)
(*   SpecOrderAny  both conversations and any press of an order button     *)
(*   SpecSubAny    the subscription conversation and any press of a        *)
(*                 subscription button                                     *)
(***************************************************************************)
OrderData == {d \in CallbackData : IsOrderData(d)}

SubData == {d \in CallbackData : IsSubData(d)}

NextOrderAny ==
    \/ \E u \in Owners, n \in ShopNames \cup {""} : setup_shop(u, n)
    \/ \E u \in Customers, a \in OrderArgs : order_start(u, a)
    \/ \E u \in Customers, ok \in BOOLEAN : order_photo(u, ok)
    \/ \E u \in Customers, x \in Texts : order_name(u, x)
    \/ \E u \in Customers, x \in Texts : order_phone(u, x)
    \/ \E u \in Customers, x \in Texts, s \in BOOLEAN : order_address(u, x, s)
    \/ \E u \in Payers : pay_subscribe_start(u)
    \/ \E u \in Payers, ok \in BOOLEAN, s \in BOOLEAN : pay_sub_receive(u, ok, s)
    \/ \E u \in Users, d \in OrderData : order_press(u, d)

SpecOrderAny == Init /\ [][NextOrderAny]_vars

NextSubAny ==
    \/ \E u \in Owners, n \in ShopNames \cup {""} : setup_shop(u, n)
    \/ \E u \in Payers : pay_subscribe_start(u)
    \/ \E u \in Payers, ok \in BOOLEAN, s \in BOOLEAN : pay_sub_receive(u, ok, s)
    \/ \E u \in Users, d \in SubData : sub_press(u, d)

SpecSubAny == Init /\ [][NextSubAny]_vars

(***************************************************************************)
(* The shop link and the order conversation.  /start and /order carry any  *)
(* argument and /cancel may come at any time.                              *)
(*   SpecTrial  the way into the conversation over the days of a trial:    *)
(*              the clock moves by a day or by the length of the trial     *)
(*   SpecConv   the conversation from /order to the order, within a day    *)
(***************************************************************************)
TrialSteps == {1, TRIAL_DAYS}

NextTrial ==
    \/ \E d \in TrialSteps : TickDay(d)
    \/ \E u \in Owners, n \in ShopNames \cup {""} : setup_shop(u, n)
    \/ \E u \in Customers, a \in ArgLists : start(u, a)
    \/ \E u \in Customers, a \in ArgLists : order_start(u, a)
    \/ \E u \in Customers : cancel(u)

SpecTrial == Init /\ [][NextTrial]_vars

NextConv ==
    \/ \E u \in Owners, n \in ShopNames \cup {""} : setup_shop(u, n)
    \/ \E u \in Customers, a \in ArgLists : start(u, a)
    \/ \E u \in Customers, a \in ArgLists : order_start(u, a)
    \/ \E u \in Customers, ok \in BOOLEAN : order_photo(u, ok)
    \/ \E u \in Customers, x \in Texts : order_name(u, x)
    \/ \E u \in Customers, x \in Texts : order_phone(u, x)
    \/ \E u \in Customers, x \in Texts, s \in BOOLEAN : order_address(u, x, s)
    \/ \E u \in Customers : cancel(u)

SpecConv == Init /\ [][NextConv]_vars

(***************************************************************************)
(* Properties.  ev' is the update a step handles, so an action formula     *)
(* picks out a step by its sender and its button and relates the store     *)
(* before the step to the store after it.                                  *)
(***************************************************************************)
\* e is a press of a subscription button / of an order button
SubPress(e) == e.op = "callback" /\ IsSubData(e.data) /\ Len(e.data) >= 4 /\ IsInt(e.data[3]) /\ IsInt(e.data[4])
OrderPress(e) == e.op = "callback" /\ IsOrderData(e.data) /\ IsInt(e.data[3])

\* the payment, the submitter and the order a press names
pid_of(e) == ParseInt(e.data[3])
uid_of(e) == ParseInt(e.data[4])
oid_of(e) == ParseInt(e.data[3])

\* C1: the status of an order changes at most once and only out of "Pending":
\* once an order is Confirmed or Rejected, no step changes its status.
C1_OrderDecidedOnce ==
    [][\A o \in 1..Len(orders) :
          orders[o].status # "Pending" => orders'[o].status = orders[o].status]_vars

\* C2: an Approve of a subscription payment that is delivered again, after the
\* payment is approved, leaves the shops and the payments as they are.
C2_DuplicateApproveIgnored ==
    [][(/\ SubPress(ev') /\ ev'.by = ADMIN_ID /\ ev'.data[2] = "ok"
        /\ HasPayment(payments, pid_of(ev'))
        /\ payments[pid_of(ev')].status = "approved")
       => (shops' = shops /\ payments' = payments)]_vars

\* C3: a Reject of a subscription payment that is approved, or an Approve of one
\* that is rejected, leaves the payment's status and the shops as the first
\* decision set them.
C3_FirstDecisionStands ==
    [][(/\ SubPress(ev') /\ ev'.by = ADMIN_ID
        /\ HasPayment(payments, pid_of(ev'))
        /\ \/ ev'.data[2] = "no" /\ payments[pid_of(ev')].status = "approved"
           \/ ev'.data[2] = "ok" /\ payments[pid_of(ev')].status = "rejected")
       => (shops' = shops /\ payments' = payments)]_vars

\* an accepted Approve: the press of the administrator on a "sub_ok" button
Approval(e) == SubPress(e) /\ e.by = ADMIN_ID /\ e.data[2] = "ok"

\* C4: two Approve presses in a row for a submitter whose shop row held a date
\* E that parses before the first leave the row at E plus twice the extension.
C4_ReapprovalCompounds ==
    [][(/\ Approval(ev) /\ Approval(ev') /\ uid_of(ev) = uid_of(ev')
        /\ HasShop(shops, uid_of(ev'))
        /\ ev.old_exp # NullDate /\ CanParse(ev.old_exp))
       => shops'[uid_of(ev')].expire_date
            = strftime(strptime(ev.old_exp) + 2 * SUBSCRIPTION_EXTENSION_DAYS)]_vars

\* The second of two approvals has acted on a shop that was on its trial date.
C4_Witness ==
    /\ Approval(ev) /\ HasShop(shops, uid_of(ev))
    /\ ev.old_exp = strftime(StartDay + TRIAL_DAYS + SUBSCRIPTION_EXTENSION_DAYS)
    /\ shops[uid_of(ev)].expire_date = strftime(StartDay + TRIAL_DAYS + 2 * SUBSCRIPTION_EXTENSION_DAYS)

\* the sender of a press the claim calls unauthorized: not the administrator
\* and, for an order, not the owner of the order's shop
Unauthorized(sh, os, e) ==
    /\ e.by # ADMIN_ID
    /\ \/ SubPress(e)
       \/ /\ OrderPress(e) /\ HasOrder(os, oid_of(e))
          /\ ~(HasShop(sh, os[oid_of(e)].shop_id) /\ e.by = os[oid_of(e)].shop_id)

\* C5: a press by a sender that is neither the administrator nor (for an order)
\* the owner of the order's shop is answered "Not authorized" and changes no
\* shop, order or payment; a subscription press is accepted from the
\* administrator alone.
C5_UnauthorizedRefused ==
    [][Unauthorized(shops, orders, ev')
       => (ev'.reply = "Not authorized" /\ shops' = shops /\ orders' = orders /\ payments' = payments)]_vars

\* The customer has pressed the button of a pending order of an existing shop
\* and has been refused.
C5_Witness ==
    /\ OrderPress(ev) /\ HasOrder(orders, oid_of(ev))
    /\ ev.by \in Customers /\ ev.reply = "Not authorized"
    /\ HasShop(shops, orders[oid_of(ev)].shop_id)
    /\ orders[oid_of(ev)].status = "Pending"

\* the status an order button asks for
asked_status(e) == IF e.data[2] = "conf" THEN "Confirmed" ELSE "Rejected"

\* C6 as stated: while the owner of the order's shop is resolvable, a press of
\* the administrator on the order's button changes no order.
C6_AdminRefusedWhileOwnerResolvable ==
    [][(/\ OrderPress(ev') /\ HasOrder(orders, oid_of(ev')) /\ ev'.by = ADMIN_ID
        /\ HasShop(shops, orders[oid_of(ev')].shop_id)
        /\ orders[oid_of(ev')].shop_id # ADMIN_ID)
       => orders' = orders]_vars

\* C6 amended: a press on the button of an existing order is applied when its
\* sender is the administrator or the owner of the order's shop, whether or not
\* that owner is resolvable, and changes no order from any other sender.
C6_AdminOrOwnerDecides ==
    [][(OrderPress(ev') /\ HasOrder(orders, oid_of(ev')))
       => IF \/ ev'.by = ADMIN_ID
             \/ HasShop(shops, orders[oid_of(ev')].shop_id) /\ ev'.by = orders[oid_of(ev')].shop_id
          THEN orders' = [orders EXCEPT ![oid_of(ev')].status = asked_status(ev')]
          ELSE orders' = orders]_vars

\* The administrator has confirmed an order of a shop whose owner is another user.
C6_Witness ==
    /\ OrderPress(ev) /\ HasOrder(orders, oid_of(ev)) /\ ev.by = ADMIN_ID
    /\ HasShop(shops, orders[oid_of(ev)].shop_id)
    /\ orders[oid_of(ev)].shop_id # ADMIN_ID
    /\ ev.data[2] = "conf" /\ orders[oid_of(ev)].status = "Confirmed"

\* C7: the request to decide an order goes to one recipient, the owner of the
\* shop the order refers to when there is a row for it and otherwise the
\* administrator; the request to decide a subscription payment goes to the
\* administrator.
C7_RequestRecipient ==
    /\ ev.op = "order_address"
       => /\ HasOrder(orders, oid_of(ev))
          /\ ev.target = IF HasShop(shops, orders[oid_of(ev)].shop_id)
                         THEN orders[oid_of(ev)].shop_id ELSE ADMIN_ID
    /\ (ev.op = "pay_sub_receive" /\ ev.data # <<>>) => ev.target = ADMIN_ID

\* An order of an existing shop has been submitted and its request has gone to
\* the owner, who is not the administrator.
C7_Witness ==
    /\ ev.op = "order_address" /\ ev.target \in Owners /\ ev.target # ADMIN_ID
    /\ HasShop(shops, ev.target) /\ orders[oid_of(ev)].shop_id = ev.target

\* the date an extension starts from: the stored expiry when it is there and
\* parses, else the current date
base_date(sh, t, uid) ==
    IF sh[uid].expire_date # NullDate /\ CanParse(sh[uid].expire_date)
    THEN strptime(sh[uid].expire_date) ELSE t.day

\* C8: an Approve of a subscription payment by the administrator sets the expiry
\* of the submitter's shop to the base date plus the extension and the payment
\* to approved.
C8_ApproveExtends ==
    [][(Approval(ev') /\ HasShop(shops, uid_of(ev')) /\ HasPayment(payments, pid_of(ev')))
       => /\ shops'[uid_of(ev')].expire_date
               = strftime(base_date(shops, now, uid_of(ev')) + SUBSCRIPTION_EXTENSION_DAYS)
          /\ payments'[pid_of(ev')].status = "approved"]_vars

\* An approval has acted on a shop row that held no date that parses, on a day
\* after the start: the row now holds today plus the extension.
C8_Witness ==
    /\ Approval(ev) /\ HasShop(shops, uid_of(ev))
    /\ (ev.old_exp = NullDate \/ ~CanParse(ev.old_exp))
    /\ now.day > StartDay
    /\ shops[uid_of(ev)].expire_date = strftime(now.day + SUBSCRIPTION_EXTENSION_DAYS)
    /\ payments[pid_of(ev)].status = "approved"

\* C9: a Reject of a subscription payment by the administrator sets the payment
\* to rejected and leaves every shop and every order as it is.
C9_RejectLeavesShops ==
    [][(SubPress(ev') /\ ev'.by = ADMIN_ID /\ ev'.data[2] = "no" /\ HasPayment(payments, pid_of(ev')))
       => /\ payments'[pid_of(ev')].status = "rejected"
          /\ shops' = shops
          /\ orders' = orders]_vars

\* A rejection has acted while the submitter has a shop and an order is on file.
C9_Witness ==
    /\ SubPress(ev) /\ ev.by = ADMIN_ID /\ ev.data[2] = "no"
    /\ payments[pid_of(ev)].status = "rejected"
    /\ HasShop(shops, uid_of(ev))
    /\ Len(orders) > 0

\* C10: an order that is decided has a payment of its own whose status follows
\* it: approved with Confirmed, rejected with Rejected, never pending.
C10_PaymentFollowsOrder ==
    \A o \in 1..Len(orders) :
        orders[o].status # "Pending"
        => \E p \in 1..Len(payments) :
               /\ payments[p].kind = "order" /\ payments[p].ref_id = o
               /\ payments[p].status = IF orders[o].status = "Confirmed" THEN "approved" ELSE "rejected"

\* C11: a press of an order button whose order id is in no row of the orders
\* table is answered "Order not found.", whoever the sender is, and changes no
\* order, payment or shop.
C11_UnknownOrderNotFound ==
    [][(OrderPress(ev') /\ ~HasOrder(orders, oid_of(ev')))
       => (/\ ev'.reply = "Order not found."
           /\ shops' = shops /\ orders' = orders /\ payments' = payments)]_vars

\* The customer, who may decide no order, has pressed a button of an order id
\* past the last row while an order, a payment and a shop are on file.
C11_Witness ==
    /\ OrderPress(ev) /\ ~HasOrder(orders, oid_of(ev))
    /\ ev.by \in Customers /\ ev.reply = "Order not found."
    /\ Len(orders) > 0 /\ Len(payments) > 0 /\ shops # Empty

\* C12: a press of a subscription button whose payment id is in no row of the
\* payments table is not processed as a decision and leaves every shop, order
\* and payment as it is; an Approve among them extends no shop.
C12_UnknownPaymentNotFound ==
    [][(SubPress(ev') /\ ev'.by = ADMIN_ID /\ ~HasPayment(payments, pid_of(ev')))
       => (/\ ev'.reply \notin {"Approved", "Rejected"}
           /\ shops' = shops /\ orders' = orders /\ payments' = payments)]_vars

\* the status a subscription button asks for
asked_payment_status(e) == IF e.data[2] = "ok" THEN "approved" ELSE "rejected"

\* e is a press the handler accepts as a decision on a row that exists
AcceptedSub(ps, e) == SubPress(e) /\ e.by = ADMIN_ID /\ HasPayment(ps, pid_of(e))
AcceptedOrder(sh, os, e) ==
    /\ OrderPress(e) /\ HasOrder(os, oid_of(e))
    /\ (e.by = ADMIN_ID \/ (HasShop(sh, os[oid_of(e)].shop_id) /\ e.by = os[oid_of(e)].shop_id))

\* C13: for each kind of decision the row has the status the button asks for
\* after the step, whether the notification of the submitter was delivered or
\* failed; an approval has also stored the new expiry in the submitter's shop.
C13_NotificationFailureKeepsMutation ==
    [][/\ AcceptedSub(payments, ev')
          => /\ payments'[pid_of(ev')].status = asked_payment_status(ev')
             /\ (ev'.data[2] = "ok" /\ HasShop(shops, uid_of(ev')))
                => shops'[uid_of(ev')].expire_date = ev'.new_exp
       /\ AcceptedOrder(shops, orders, ev')
          => orders'[oid_of(ev')].status = asked_status(ev')]_vars

\* An approval whose notification failed has acted: the payment is approved
\* and the submitter's shop holds the new expiry.
C13_Witness ==
    /\ ~ev.notified
    /\ AcceptedSub(payments, ev) /\ ev.data[2] = "ok"
    /\ payments[pid_of(ev)].status = "approved"
    /\ HasShop(shops, uid_of(ev)) /\ shops[uid_of(ev)].expire_date = ev.new_exp
    /\ ev.new_exp # ev.old_exp

\* what the claim says is_shop_active answers for id
active_as_stated(sh, t, id) ==
    \/ id = ADMIN_ID
    \/ /\ HasShop(sh, id)
       /\ sh[id].expire_date # NullDate /\ CanParse(sh[id].expire_date)
       /\ t.day <= strptime(sh[id].expire_date)

\* C14: is_shop_active is true for the administrator with or without a shop
\* row; for any other id it is true exactly when there is a row whose expiry is
\* present, parses and is not before today; and /order is let in exactly when
\* the shop it names is active in this sense.
C14_ActiveExactlyWhen ==
    /\ \A id \in ShopRefs : is_shop_active(shops, now, id) = active_as_stated(shops, now, id)
    /\ (ev.op = "order_start" /\ Has(user_data[ev.by], "current_shop_id"))
       => (ev.reply = "send photo") = active_as_stated(shops, now, user_data[ev.by]["current_shop_id"])

\* /order has been refused for a shop whose row holds an expiry that does not
\* parse, and the handler answered rather than failed.
C14_Witness ==
    /\ ev.op = "order_start" /\ ev.reply = "expired"
    /\ Has(user_data[ev.by], "current_shop_id")
    /\ HasShop(shops, user_data[ev.by]["current_shop_id"])
    /\ shops[user_data[ev.by]["current_shop_id"]].expire_date = BadDate

\* the shop row of u is as setup_shop wrote it: the expiry is the day of
\* creation plus the trial
OnTrial(sh, u) ==
    /\ HasShop(sh, u) /\ u # ADMIN_ID
    /\ sh[u].expire_date = strftime(strptime(sh[u].created_at) + TRIAL_DAYS)

\* C15: a shop set up on day T and not touched since is active on the days T
\* to T+3 and inactive from day T+4 on.
C15_TrialWindow ==
    \A u \in Users :
        OnTrial(shops, u)
        => is_shop_active(shops, now, u) = (now.day <= strptime(shops[u].created_at) + 3)

\* On day T+4 /order for the shop set up on day T has been refused as expired.
C15_Witness ==
    /\ ev.op = "order_start" /\ ev.reply = "expired"
    /\ Has(user_data[ev.by], "current_shop_id")
    /\ OnTrial(shops, user_data[ev.by]["current_shop_id"])
    /\ now.day = strptime(shops[user_data[ev.by]["current_shop_id"]].created_at) + 4

\* C16: once a shop row exists it stays, and its expiry changes only in a step
\* that is an approval of a subscription payment; a repeated /setup_shop leaves
\* the stored expiry as it is.
C16_ExpiryOnlyExtended ==
    [][\A u \in Users :
          HasShop(shops, u)
          => /\ HasShop(shops', u)
             /\ shops'[u].expire_date # shops[u].expire_date
                => (Approval(ev') /\ uid_of(ev') = u)]_vars

\* C17: every payment of kind "order" carries an order reference and every
\* payment of kind "subscription" carries none (ref_id 0 stands for NULL).
C17_RefMatchesKind ==
    \A p \in 1..Len(payments) :
        /\ payments[p].kind = "order" => payments[p].ref_id # 0
        /\ payments[p].kind = "subscription" => payments[p].ref_id = 0

\* A subscription payment has been written without a reference while an order
\* is on file.
C17_Witness ==
    /\ ev.op = "pay_sub_receive" /\ ev.reply = "Payment submitted"
    /\ payments[Len(payments)].kind = "subscription" /\ payments[Len(payments)].ref_id = 0
    /\ Len(orders) > 0

\* C18: every order on file has a payment of kind "order" whose reference is
\* the order's id, written in the submission that wrote the order.
C18_OrderHasPayment ==
    \A o \in 1..Len(orders) :
        \E p \in 1..Len(payments) : payments[p].kind = "order" /\ payments[p].ref_id = o

StepInput(a, b) ==
    IF a = END /\ b = "ORDER_PHOTO" THEN {"order_start"}
    ELSE IF a = "ORDER_PHOTO" /\ b = "ORDER_NAME" THEN {"order_photo"}
    ELSE IF a = "ORDER_NAME" /\ b = "ORDER_PHONE" THEN {"order_name"}
    ELSE IF a = "ORDER_PHONE" /\ b = "ORDER_ADDRESS" THEN {"order_phone"}
    ELSE IF a = "ORDER_ADDRESS" /\ b = END THEN {"order_address", "cancel"}
    ELSE IF b = END THEN {"cancel"}
    ELSE {}

Collected(ud) == DOMAIN ud \cap {"cust_name", "cust_phone", "cust_address"}

\* C20: no order is written without a name, a phone and an address collected in
\* the conversation that writes it: a conversation starts with none of them,
\* holds the name before it asks for the phone and the phone before it asks for
\* the address, and the order gets the three values of its own conversation.
C20_NoCheckoutWithoutContact ==
    /\ [](\A u \in Users :
            Collected(user_data[u]) =
                IF order_conv[u] = "ORDER_PHONE" THEN {"cust_name"}
                ELSE IF order_conv[u] = "ORDER_ADDRESS" THEN {"cust_name", "cust_phone"}
                ELSE {})
    /\ [][Len(orders') > Len(orders)
          => /\ order_conv[ev'.by] = "ORDER_ADDRESS"
             /\ orders'[Len(orders')].cust_name = user_data[ev'.by]["cust_name"]
             /\ orders'[Len(orders')].cust_phone = user_data[ev'.by]["cust_phone"]
             /\ orders'[Len(orders')].cust_address \in Texts]_vars

\* An order has been written: it holds a name, a phone and an address, and the
\* customer's user_data holds none of them any more.
C20_Witness ==
    /\ ev.op = "order_address" /\ Len(orders) > 0
    /\ orders[Len(orders)].cust_name \in Texts
    /\ orders[Len(orders)].cust_phone \in Texts
    /\ orders[Len(orders)].cust_address \in Texts
    /\ Collected(user_data[ev.by]) = {}

(***************************************************************************)
(* The cart of the name-first order conversation (lines 559-647): its      *)
(* handlers are defined in the module ahead of the photo-first ones, and   *)
(* main() registers none of them.  They are modelled as written, from the  *)
(* state their order_start .. order_address leave: a selected shop, the    *)
(* contact fields, cart = [] and total = 0, the user in ORDER_SHOPPING.    *)
(* A text is modelled by its parts, text.split(":", 1); the two reply      *)
(* keyboard buttons are texts of one part.                                 *)
(***************************************************************************)
MaxCart == 2

CartNames == {"a", "b "}
PriceTexts == {"1", " 2", "x", ""}
ViewCart == <<"View Cart">>
Checkout == <<"Checkout">>
ShopTexts == {ViewCart, Checkout, <<"a">>} \cup {<<n, p>> : n \in CartNames, p \in PriceTexts}

\* str.strip() on the texts above
Padded == ("b " :> "b") @@ (" 2" :> "2")
strip(s) == IF s \in DOMAIN Padded THEN Padded[s] ELSE s

\* context.user_data.get("cart", []) and context.user_data.get("total", 0)
CartOf(ud) == IF Has(ud, "cart") THEN ud["cart"] ELSE <<>>

\* user_data.get("total", 0) finding no total
total_unset(ud) == 0

TotalOf(ud) == IF Has(ud, "total") THEN ud["total"] ELSE 0

\* f"{name.strip()}:{price}", kept as the pair joined at ":"
cart_entry(name, price) == <<strip(name), Str(price)>>

\* order_shopping putting the new entry at the head of the cart
cart_add_front(ud, name, price) ==
    Put(Put(ud, "cart", <<cart_entry(name, price)>> \o CartOf(ud)), "total", TotalOf(ud) + price)

\* setdefault("cart", []).append(entry); user_data["total"] = get("total", 0) + price
cart_add(ud, name, price) ==
    Put(Put(ud, "cart", Append(CartOf(ud), cart_entry(name, price))), "total", TotalOf(ud) + price)

\* ":" in text, and int(price.strip()) does not raise
IsEntry(text) == Len(text) = 2 /\ IsInt(strip(text[2]))

InitCart ==
    /\ now = [day |-> StartDay, sec |-> 0]
    /\ shops \in InitialShops
    /\ orders = <<>>
    /\ payments = <<>>
    /\ files = {}
    /\ \E s \in {ADMIN_ID} \cup Owners, n \in Texts :
          user_data = [u \in Users |->
                          IF u \in Customers
                          THEN [k \in {"current_shop_id", "cart", "total", "cust_name", "cust_phone",
                                       "cust_address"} |->
                                   CASE k = "current_shop_id" -> s
                                     [] k = "cart" -> <<>>
                                     [] k = "total" -> 0
                                     [] OTHER -> n]
                          ELSE Empty]
    /\ order_conv = [u \in Users |-> IF u \in Customers THEN "ORDER_SHOPPING" ELSE END]
    /\ pay_conv = [u \in Users |-> END]
    /\ ev = Event("order_address", 0, <<>>, "Select product", 0, FALSE)

order_shopping(uid, text) ==
    /\ order_conv[uid] = "ORDER_SHOPPING"
    /\ IF text = ViewCart
       THEN /\ ev' = Event("order_shopping", uid, text, "Cart", 0, FALSE)
            /\ UNCHANGED <<user_data, order_conv>>
       ELSE IF text = Checkout
       THEN /\ ev' = Event("order_shopping", uid, text, "Send payment screenshot", 0, FALSE)
            /\ order_conv' = [order_conv EXCEPT ![uid] = "ORDER_PHOTO"]
            /\ user_data' = user_data
       ELSE IF IsEntry(text)
       THEN /\ Len(CartOf(user_data[uid])) < MaxCart
            /\ user_data' = [user_data EXCEPT ![uid] = cart_add(@, text[1], ParseInt(strip(text[2])))]
            /\ ev' = Event("order_shopping", uid, text, "Added", 0, FALSE)
            /\ order_conv' = order_conv
       ELSE /\ ev' = Event("order_shopping", uid, text,
                           IF Len(text) = 2 THEN "Format must be name:price" ELSE "", 0, FALSE)
            /\ UNCHANGED <<user_data, order_conv>>
    /\ UNCHANGED <<now, store, files, pay_conv>>

RECURSIVE join(_)
\* ",".join(cart): the entries in order with "," between them
join(cart) ==
    IF Len(cart) <= 1 THEN cart ELSE join(SubSeq(cart, 1, Len(cart) - 1)) \o <<",", cart[Len(cart)]>>

order_photo_receive(uid, photo, sent) ==
    /\ order_conv[uid] = "ORDER_PHOTO"
    /\ IF ~photo
       THEN /\ ev' = Event("order_photo_receive", uid, <<>>, "Send a photo", 0, FALSE)
            /\ UNCHANGED <<orders, payments, files, order_conv>>
       ELSE /\ Len(orders) < MaxOrders
            /\ Len(payments) < MaxPayments
            /\ LET ud == user_data[uid]
                   sid == ud["current_shop_id"]
                   oid == Len(orders) + 1
                   f == filename("pay_order", uid, now)
               IN  /\ files' = files \cup {f}
                   /\ orders' = db_create_order(orders, now, sid, uid, ud["cust_name"], ud["cust_phone"],
                                                ud["cust_address"], join(CartOf(ud)), TotalOf(ud), f)
                   /\ payments' = db_insert_payment(payments, now, uid, "order", oid, f)
                   /\ ev' = Event("order_photo_receive", uid,
                                  <<"order", "conf", Str(oid), Str(Len(payments) + 1)>>,
                                  "Order received", order_target(shops, sid), sent)
            /\ order_conv' = [order_conv EXCEPT ![uid] = END]
    /\ UNCHANGED <<now, shops, user_data, pay_conv>>

NextCart ==
    \/ \E u \in Customers, x \in ShopTexts : order_shopping(u, x)
    \/ \E u \in Customers, p \in BOOLEAN, s \in BOOLEAN : order_photo_receive(u, p, s)

SpecCart == InitCart /\ [][NextCart]_vars

RECURSIVE SumPrices(_)
\* the sum of the prices of the entries of a cart
SumPrices(cart) ==
    IF cart = <<>> THEN 0 ELSE SumPrices(SubSeq(cart, 1, Len(cart) - 1)) + ParseInt(cart[Len(cart)][2])

menu_text_handler(uid, text) ==
    /\ order_conv[uid] \in {END, "ORDER_PHOTO"}
    /\ ev' = Event("menu_text_handler", uid, <<text>>, "Command not recognized. Use /help", 0, FALSE)
    /\ UNCHANGED <<now, store, files, sessions>>

NextSession ==
    \/ \E u \in Owners, n \in ShopNames : setup_shop(u, n)
    \/ \E u \in Customers, a \in ArgLists : start(u, a)
    \/ \E u \in Customers, a \in ArgLists : order_start(u, a)
    \/ \E u \in Customers, ok \in BOOLEAN : order_photo(u, ok)
    \/ \E u \in Customers, x \in Texts : order_name(u, x)
    \/ \E u \in Customers, x \in Texts : order_phone(u, x)
    \/ \E u \in Customers, x \in Texts, s \in BOOLEAN : order_address(u, x, s)
    \/ \E u \in Customers : pay_subscribe_start(u)
    \/ \E u \in Customers, ok \in BOOLEAN, s \in BOOLEAN : pay_sub_receive(u, ok, s)
    \/ \E u \in Customers, x \in Texts : menu_text_handler(u, x)
    \/ \E u \in Customers : cancel(u)

SpecSession == Init /\ [][NextSession]_vars

\* the store's orders and payments and the stored artifacts are left as they were
NothingWritten == orders' = orders /\ payments' = payments /\ files' = files

\* C23: while a user waits in ORDER_PHOTO or in PAY_SUB_WAIT, an input of that
\* user that is neither an image nor /cancel leaves the state where it was,
\* leaves the fields collected for the order (user_data) as they were, and
\* writes no order, no payment and no file.
C23_NonImageKeepsSession ==
    [][\A u \in Customers :
          (ev'.by = u /\ ev'.op \notin {"order_photo", "pay_sub_receive", "cancel"})
          => /\ order_conv[u] = "ORDER_PHOTO"
                => order_conv'[u] = "ORDER_PHOTO" /\ user_data'[u] = user_data[u] /\ NothingWritten
             /\ pay_conv[u] = "PAY_SUB_WAIT"
                => pay_conv'[u] = "PAY_SUB_WAIT" /\ NothingWritten]_vars

\* C24: /cancel ends the user's order conversation and subscription
\* conversation, whatever their states, empties user_data and writes no order
\* and no payment.
C24_CancelEndsSession ==
    [][\A u \in Customers :
          (ev'.by = u /\ ev'.op = "cancel")
          => /\ order_conv'[u] = END
             /\ pay_conv'[u] = END
             /\ user_data'[u] = Empty
             /\ NothingWritten]_vars

\* an /order step of user u
OrderEntry(u) == ev'.op = "order_start" /\ ev'.by = u

\* the step is refused with the guidance message: the conversation stays
\* ended, user_data and the store are as they were
EntryRefused(u) ==
    /\ ev'.reply = "open a shop link first"
    /\ order_conv'[u] = END
    /\ user_data'[u] = user_data[u]
    /\ store' = store /\ files' = files

\* C25 as stated: /order by a user whose session holds no selected shop is
\* refused with the guidance message, whatever the command's argument.
C25_NoShopNoEntry ==
    [][\A u \in Customers :
          (OrderEntry(u) /\ ~Has(user_data[u], "current_shop_id")) => EntryRefused(u)]_vars

\* C25: /order by a user whose session holds no selected shop, with no argument
\* or with an argument that is no number, is refused with the guidance message:
\* the conversation stays ended and nothing is written.
C25_NoShopNoArgumentNoEntry ==
    [][\A u \in Customers :
          (/\ OrderEntry(u)
           /\ ~Has(user_data[u], "current_shop_id")
           /\ (ev'.data = <<>> \/ ~IsInt(ev'.data[1])))
          => EntryRefused(u)]_vars

\* /order x was refused for a user with no selected shop, while a shop exists
C25_Witness ==
    \E u \in Customers :
        /\ ev.op = "order_start" /\ ev.by = u /\ ev.data = <<"x">>
        /\ ev.reply = "open a shop link first"
        /\ ~Has(user_data[u], "current_shop_id")
        /\ order_conv[u] = END
        /\ shops # Empty

\* C26: no user is inside the order conversation and the subscription
\* conversation at the same time.
C26_OneSessionPerUser ==
    \A u \in Users : ~(order_conv[u] # END /\ pay_conv[u] # END)

\* C27: while a user's order conversation is open no step changes the shop it
\* was opened for, and the order it writes is recorded against that shop, with
\* the name, phone and photo collected in the conversation.
C27_OrderKeepsItsShop ==
    [][\A u \in Customers :
          order_conv[u] # END
          => IF Len(orders') > Len(orders) /\ ev'.by = u
             THEN /\ orders'[Len(orders')].shop_id = user_data[u]["current_shop_id"]
                  /\ orders'[Len(orders')].cust_name = user_data[u]["cust_name"]
                  /\ orders'[Len(orders')].cust_phone = user_data[u]["cust_phone"]
                  /\ orders'[Len(orders')].photo_path = user_data[u]["order_photo"]
             ELSE order_conv'[u] # END
                  => /\ Has(user_data'[u], "current_shop_id")
                     /\ user_data'[u]["current_shop_id"] = user_data[u]["current_shop_id"]]_vars

(***************************************************************************)
(* cleanup_old_photos: the job main() schedules every 24 hours.            *)
(***************************************************************************)
CLEANUP_PHOTO_DAYS == 30

\* How many days past the retention window the clock of the sweeper's
\* specifications runs.
MaxSweepDays == 1

SweepSteps == {CLEANUP_PHOTO_DAYS, CLEANUP_PHOTO_DAYS + 1}

TickSweep(d) ==
    /\ now.day + d <= StartDay + CLEANUP_PHOTO_DAYS + MaxSweepDays
    /\ now' = [day |-> now.day + d, sec |-> 0]
    /\ ev' = Event("clock", 0, <<>>, "", 0, FALSE)
    /\ UNCHANGED <<store, files, sessions>>

\* cutoff = datetime.now() - timedelta(days=CLEANUP_PHOTO_DAYS)
cutoff(t) == [day |-> t.day - CLEANUP_PHOTO_DAYS, sec |-> t.sec]

\* created_dt and created_dt < cutoff, created_dt parsed from the row's created_at
created_before(created, c) ==
    /\ CanParse(created[1])
    /\ \/ strptime(created[1]) < c.day
       \/ strptime(created[1]) = c.day /\ created[2] < c.sec

\* the sweeper's test without os.path.exists(p)
due_unchecked(rows, fs, t) ==
    {rows[i].photo_path : i \in {j \in 1..Len(rows) : created_before(rows[j].created_at, cutoff(t))}}

\* the paths one loop of the sweeper passes to os.remove
due(rows, fs, t) ==
    {rows[i].photo_path : i \in {j \in 1..Len(rows) :
                                    /\ rows[j].photo_path \in fs
                                    /\ created_before(rows[j].created_at, cutoff(t))}}

\* a pass that the first os.remove to raise ends: nothing is removed
swept_aborting(fs, os, ps, t, failed) ==
    IF failed # {} THEN fs ELSE fs \ (due(os, fs, t) \cup due(ps, fs, t))

\* the files left by a pass in which os.remove raises for the paths in failed
swept(fs, os, ps, t, failed) == fs \ ((due(os, fs, t) \cup due(ps, fs, t)) \ failed)

\* ev.data of a pass: the paths whose removal raised, the paths passed to
\* os.remove, and the update handled just before the pass
cleanup_old_photos(failed) ==
    /\ failed \subseteq due(orders, files, now) \cup due(payments, files, now)
    /\ files' = swept(files, orders, payments, now, failed)
    /\ ev' = Event("cleanup_old_photos", 0,
                   <<failed, due(orders, files, now) \cup due(payments, files, now), ev.op>>, "", 0, FALSE)
    /\ UNCHANGED <<now, store, sessions>>

NextSweep ==
    \/ \E d \in SweepSteps : TickSweep(d)
    \/ \E u \in Customers : order_start(u, <<Str(ADMIN_ID)>>)
    \/ \E u \in Customers, ok \in BOOLEAN : order_photo(u, ok)
    \/ \E u \in Customers, x \in Texts : order_name(u, x)
    \/ \E u \in Customers, x \in Texts : order_phone(u, x)
    \/ \E u \in Customers, x \in Texts, s \in BOOLEAN : order_address(u, x, s)
    \/ \E u \in Payers : pay_subscribe_start(u)
    \/ \E u \in Payers, ok \in BOOLEAN, s \in BOOLEAN : pay_sub_receive(u, ok, s)
    \/ \E failed \in SUBSET files : cleanup_old_photos(failed)

SpecSweep == Init /\ [][NextSweep]_vars

\* a step of the sweeper
Pass == ev'.op = "cleanup_old_photos"

\* the file's age is past the retention window: its timestamp is before the cutoff
OldFile(p) == p[3] < timestamp(cutoff(now))

\* C29: after a pass every file that a record pointed to, that existed and was
\* older than the retention window is deleted (unless its removal raised), and
\* every order and payment that pointed to a file the pass deleted has its
\* photo_path cleared.
C29_SweptAndCleared ==
    [][Pass
       => /\ \A i \in 1..Len(orders) :
                LET p == orders[i].photo_path
                IN  /\ (p \in files /\ OldFile(p) /\ p \notin ev'.data[1]) => p \notin files'
                    /\ (p \in files /\ p \notin files') => orders'[i].photo_path = <<>>
          /\ \A i \in 1..Len(payments) :
                LET p == payments[i].photo_path
                IN  /\ (p \in files /\ OldFile(p) /\ p \notin ev'.data[1]) => p \notin files'
                    /\ (p \in files /\ p \notin files') => payments'[i].photo_path = <<>>]_vars

Sweep == \E failed \in SUBSET files : cleanup_old_photos(failed)

Clock == \E d \in SweepSteps : TickSweep(d)

NextIdle ==
    \/ \E u \in Customers, a \in OrderArgs : order_start(u, a)
    \/ \E u \in Customers, ok \in BOOLEAN : order_photo(u, ok)
    \/ \E u \in Customers, x \in Texts : order_name(u, x)
    \/ \E u \in Customers, x \in Texts : order_phone(u, x)
    \/ \E u \in Customers, x \in Texts, s \in BOOLEAN : order_address(u, x, s)
    \/ \E u \in Customers : pay_subscribe_start(u)
    \/ \E u \in Customers, ok \in BOOLEAN, s \in BOOLEAN : pay_sub_receive(u, ok, s)
    \/ \E u \in Customers : cancel(u)
    \/ Clock
    \/ Sweep

SpecIdle == Init /\ [][NextIdle]_vars /\ WF_vars(Clock) /\ WF_vars(Sweep)

\* C28: a user who is inside a conversation is eventually outside both.
C28_SessionEventuallyDiscarded ==
    \A u \in Customers :
        (order_conv[u] # END \/ pay_conv[u] # END) ~> (order_conv[u] = END /\ pay_conv[u] = END)

\* the row's file exists and the row was created before the cutoff
Eligible(row) == row.photo_path \in files /\ created_before(row.created_at, cutoff(now))

\* C31: in a pass, a removal that raises and a row whose file is missing are
\* passed over: the file of every other eligible order and payment is removed
\* in that pass.
C31_FailureSkipped ==
    [][Pass
       => /\ \A i \in 1..Len(orders) :
                (Eligible(orders[i]) /\ orders[i].photo_path \notin ev'.data[1])
                => orders[i].photo_path \notin files'
          /\ \A i \in 1..Len(payments) :
                (Eligible(payments[i]) /\ payments[i].photo_path \notin ev'.data[1])
                => payments[i].photo_path \notin files']_vars

\* the removal of an order's file raised and the pass went on to remove the
\* file of a payment
C31_Witness ==
    /\ ev.op = "cleanup_old_photos"
    /\ \E i \in 1..Len(orders), j \in 1..Len(payments) :
          /\ orders[i].photo_path \in ev.data[1]
          /\ orders[i].photo_path \in files
          /\ payments[j].photo_path \in ev.data[2] \ ev.data[1]
          /\ payments[j].photo_path \notin files

(***************************************************************************)
(* Handlers suspended at an await.  main() builds the Application without  *)
(* concurrent_updates and every handler with the default block=True, so    *)
(* the update loop awaits the handler of one update before it takes the    *)
(* next.  The two handlers that download a photo are split at the          *)
(* download: while one is suspended there, its position is kept in the     *)
(* conversation's entry of its user.                                       *)
(***************************************************************************)
AwaitOrderPhoto == "ORDER_PHOTO: download_to_drive"
AwaitPaySub == "PAY_SUB_WAIT: download_to_drive"

\* a handler of an update of user u is suspended
InFlight(u) == order_conv[u] = AwaitOrderPhoto \/ pay_conv[u] = AwaitPaySub

\* an Application built with concurrent_updates(True)
may_dispatch_concurrent == TRUE

\* the update loop takes the next update: no handler is suspended
may_dispatch == \A u \in Users : ~InFlight(u)

\* an update whose handler runs to its end
dispatch(Handler) == may_dispatch /\ Handler

order_photo_begin(uid) ==
    /\ may_dispatch
    /\ order_conv[uid] = "ORDER_PHOTO"
    /\ order_conv' = [order_conv EXCEPT ![uid] = AwaitOrderPhoto]
    /\ ev' = Event("order_photo", uid, <<>>, "", 0, FALSE)
    /\ UNCHANGED <<now, store, files, user_data, pay_conv>>

order_photo_end(uid, saved) ==
    /\ order_conv[uid] = AwaitOrderPhoto
    /\ IF saved
       THEN /\ files' = files \cup {filename("order", uid, now)}
            /\ user_data' = [user_data EXCEPT ![uid] = Put(@, "order_photo", filename("order", uid, now))]
            /\ order_conv' = [order_conv EXCEPT ![uid] = "ORDER_NAME"]
            /\ ev' = Event("order_photo", uid, <<>>, "photo received", 0, FALSE)
       ELSE /\ UNCHANGED <<files, user_data>>
            /\ order_conv' = [order_conv EXCEPT ![uid] = "ORDER_PHOTO"]
            /\ ev' = Event("order_photo", uid, <<>>, "failed, send again", 0, FALSE)
    /\ UNCHANGED <<now, store, pay_conv>>

pay_sub_receive_begin(uid) ==
    /\ may_dispatch
    /\ pay_conv[uid] = "PAY_SUB_WAIT"
    /\ order_conv[uid] # "ORDER_PHOTO"
    /\ Len(payments) < MaxPayments
    /\ pay_conv' = [pay_conv EXCEPT ![uid] = AwaitPaySub]
    /\ ev' = Event("pay_sub_receive", uid, <<>>, "", 0, FALSE)
    /\ UNCHANGED <<now, store, files, user_data, order_conv>>

pay_sub_receive_end(uid, saved, sent) ==
    /\ pay_conv[uid] = AwaitPaySub
    /\ IF saved
       THEN /\ files' = files \cup {filename("sub", uid, now)}
            /\ payments' = db_insert_payment(payments, now, uid, "subscription", 0, filename("sub", uid, now))
            /\ ev' = Event("pay_sub_receive", uid, sub_button("ok", Len(payments) + 1, uid),
                           "Payment submitted", ADMIN_ID, sent)
       ELSE /\ UNCHANGED <<files, payments>>
            /\ ev' = Event("pay_sub_receive", uid, <<>>, "upload failed", 0, FALSE)
    /\ pay_conv' = [pay_conv EXCEPT ![uid] = END]
    /\ UNCHANGED <<now, shops, orders, user_data, order_conv>>

NextDispatch ==
    \/ \E u \in Customers, a \in OrderArgs : dispatch(start(u, a))
    \/ \E u \in Customers, a \in OrderArgs : dispatch(order_start(u, a))
    \/ \E u \in Customers : order_photo_begin(u)
    \/ \E u \in Customers, ok \in BOOLEAN : order_photo_end(u, ok)
    \/ \E u \in Customers, x \in Texts : dispatch(order_name(u, x))
    \/ \E u \in Customers, x \in Texts : dispatch(order_phone(u, x))
    \/ \E u \in Customers, x \in Texts, s \in BOOLEAN : dispatch(order_address(u, x, s))
    \/ \E u \in Customers : dispatch(pay_subscribe_start(u))
    \/ \E u \in Customers : pay_sub_receive_begin(u)
    \/ \E u \in Customers, ok \in BOOLEAN, s \in BOOLEAN : pay_sub_receive_end(u, ok, s)
    \/ \E u \in Customers, x \in Texts : dispatch(menu_text_handler(u, x))
    \/ \E u \in Customers : dispatch(cancel(u))

SpecDispatch == Init /\ [][NextDispatch]_vars

C33_NothingWrittenBeforeFinalStep ==
    [][ev'.op \in {"order_start", "order_photo", "order_name", "order_phone", "pay_subscribe_start",
                   "cancel"}
       => NothingWritten]_vars

\* C34: /order naming a shop that is not active (it has no record, or its
\* expiry is unset, unreadable or past) is refused: the conversation stays
\* ended and user_data, the selected shop included, is as it was.
C34_RefusedEntryKeepsSelection ==
    [][\A u \in Customers :
          (/\ OrderEntry(u)
           /\ ev'.data # <<>>
           /\ IsInt(ev'.data[1])
           /\ ~is_shop_active(shops, now, ParseInt(ev'.data[1])))
          => /\ order_conv'[u] = END
             /\ user_data'[u] = user_data[u]
             /\ store' = store /\ files' = files]_vars

\* C35: a photo whose saving fails leaves its sender in the state the photo
\* was sent in, in either conversation, and writes no order and no payment.
C35_FailedSaveKeepsState ==
    [][\A u \in Customers :
          (ev'.by = u /\ ev'.reply \in {"failed, send again", "upload failed"})
          => /\ order_conv'[u] = order_conv[u]
             /\ pay_conv'[u] = pay_conv[u]
             /\ orders' = orders /\ payments' = payments]_vars

\* C36: a photo is saved under a path no earlier photo was saved under.
C36_FreshPath ==
    [][/\ (ev'.op = "order_photo" /\ ev'.reply = "photo received")
          => filename("order", ev'.by, now) \notin files
       /\ (ev'.op = "pay_sub_receive" /\ ev'.reply = "Payment submitted")
          => filename("sub", ev'.by, now) \notin files]_vars

\* C37: an Approve that marks a payment approved leaves a shop row for the
\* submitter, holding the expiry the notification reports.
C37_ApprovedHasExpiry ==
    [][(Approval(ev') /\ HasPayment(payments, pid_of(ev')))
       => /\ payments'[pid_of(ev')].status = "approved"
          /\ HasShop(shops', uid_of(ev'))
          /\ shops'[uid_of(ev')].expire_date = ev'.new_exp]_vars

(***************************************************************************)
(* A subscription that lapsed long ago: the clock runs past the trial by   *)
(* more than one extension before the payment is approved.                 *)
(***************************************************************************)
\* How many days past trial plus extension the clock of this specification runs.
MaxLapseDays == 1

LapseSteps == {TRIAL_DAYS + 1, TRIAL_DAYS + SUBSCRIPTION_EXTENSION_DAYS + 1}

TickLapse(d) ==
    /\ now.day + d <= StartDay + TRIAL_DAYS + SUBSCRIPTION_EXTENSION_DAYS + MaxLapseDays
    /\ now' = [day |-> now.day + d, sec |-> 0]
    /\ ev' = Event("clock", 0, <<>>, "", 0, FALSE)
    /\ UNCHANGED <<store, files, sessions>>

NextLapse ==
    \/ \E d \in LapseSteps : TickLapse(d)
    \/ \E u \in Owners, n \in ShopNames : setup_shop(u, n)
    \/ \E u \in Payers : pay_subscribe_start(u)
    \/ \E u \in Payers, ok \in BOOLEAN, s \in BOOLEAN : pay_sub_receive(u, ok, s)
    \/ \E u \in Users, d \in IssuedButtons(payments, orders) : sub_press(u, d)

SpecLapse == Init /\ [][NextLapse]_vars

\* C38: right after an Approve for a submitter who has a shop row,
\* is_shop_active holds of that shop.
C38_ApprovedIsActive ==
    [][(Approval(ev') /\ HasPayment(payments, pid_of(ev')) /\ HasShop(shops, uid_of(ev')))
       => is_shop_active(shops', now', uid_of(ev'))]_vars

(***************************************************************************)
(* An order conversation that outlasts the shop's trial: the clock may     *)
(* pass the expiry between /order and the address.                         *)
(***************************************************************************)
NextStale ==
    \/ \E d \in {TRIAL_DAYS + 1} : TickDay(d)
    \/ \E u \in Owners, n \in ShopNames : setup_shop(u, n)
    \/ \E u \in Customers, a \in OrderArgs : order_start(u, a)
    \/ \E u \in Customers, ok \in BOOLEAN : order_photo(u, ok)
    \/ \E u \in Customers, x \in Texts : order_name(u, x)
    \/ \E u \in Customers, x \in Texts : order_phone(u, x)
    \/ \E u \in Customers, x \in Texts, s \in BOOLEAN : order_address(u, x, s)

SpecStale == Init /\ [][NextStale]_vars

\* C39: an order is written against a shop that has a row in shops and is
\* active at that moment.
C39_OrderForActiveShop ==
    [][Len(orders') > Len(orders)
       => /\ HasShop(shops', orders'[Len(orders')].shop_id)
          /\ is_shop_active(shops', now', orders'[Len(orders')].shop_id)]_vars

(***************************************************************************)
(* /pending_payments: the administrator's listing of the pending payments. *)
(* ev.data of a listing: the buttons sent, and the ids of the payments     *)
(* listed as text only.                                                    *)
(***************************************************************************)
\* db_get_pending_payments: the ids of the rows with status 'pending', ascending
db_get_pending_payments(ps) == {p \in 1..Len(ps) : ps[p].status = "pending"}

\* the keyboard built for payment p
pending_buttons(ps, p) ==
    IF ps[p].kind = "subscription"
    THEN {sub_button("ok", p, ps[p].uid), sub_button("no", p, ps[p].uid)}
    ELSE {order_button("conf", ps[p].ref_id), order_button("rej", ps[p].ref_id)}

\* the rows the loop reaches: all of them, or, when a send_photo raises, those
\* ahead of the first row that has its photo
reached(ps, fs, sent) ==
    LET rows == db_get_pending_payments(ps)
        with == {p \in rows : ps[p].photo_path \in fs}
    IN  IF sent \/ with = {} THEN rows
        ELSE {p \in rows : \A q \in with : p < q}

cmd_pending_payments(uid, sent) ==
    /\ IF uid # ADMIN_ID
       THEN ev' = Event("cmd_pending_payments", uid, <<{}, {}>>, "Only admin allowed.", 0, FALSE)
       ELSE IF db_get_pending_payments(payments) = {}
       THEN ev' = Event("cmd_pending_payments", uid, <<{}, {}>>, "No pending payments.", 0, FALSE)
       ELSE LET rows == reached(payments, files, sent)
                shown == {p \in rows : payments[p].photo_path \in files}
            IN  ev' = Event("cmd_pending_payments", uid,
                            <<UNION {pending_buttons(payments, p) : p \in shown}, rows \ shown>>,
                            "listed", ADMIN_ID, sent)
    /\ UNCHANGED <<now, store, files, sessions>>

NextPending ==
    \/ \E d \in SweepSteps : TickSweep(d)
    \/ \E u \in Payers : pay_subscribe_start(u)
    \/ \E u \in Payers, ok \in BOOLEAN, s \in BOOLEAN : pay_sub_receive(u, ok, s)
    \/ \E failed \in SUBSET files : cleanup_old_photos(failed)
    \/ \E u \in Users, s \in BOOLEAN : cmd_pending_payments(u, s)

SpecPending == Init /\ [][NextPending]_vars

\* C40: a listing run by the administrator, in which no send raised, sends the
\* approve and the reject button of every pending payment.
C40_PendingStaysDecidable ==
    [][(ev'.op = "cmd_pending_payments" /\ ev'.by = ADMIN_ID /\ ev'.notified)
       => \A p \in db_get_pending_payments(payments) : pending_buttons(payments, p) \subseteq ev'.data[1]]_vars

====
